---- MODULE Spec2Model ----
(***************************************************************************)
(* Model of the client-side authentication context of the finance          *)
(* dashboard: the AuthProvider (session bootstrap, fallback/test mode and  *)
(* delegated/remote mode, privilege lookup), the ProtectedRoute guard, the *)
(* HomePage redirect, the login page handler and the Sidebar; and of the   *)
(* add-expense / add-income pages with the Person and Transaction tables   *)
(* they write to (specification PageSpec).                                 *)
(*                                                                         *)
(* One step of the model is one run-to-completion piece of JavaScript      *)
(* (an effect, an event handler up to its first real network await, or a   *)
(* promise continuation) together with the React commit it causes: the     *)
(* re-render of the mounted consumers and the effects whose dependencies   *)
(* changed.                                                                *)
(***************************************************************************)
EXTENDS Integers, Sequences, FiniteSets, TLC

----------------------------------------------------------------------------
(* Bounds of the model *)

\* Largest value read from the wall clock by new Date() / Date.now().
MaxClock == 1
\* Largest number of privilege lookups in flight at once.
MaxLookups == 1
\* Largest number of remote sign-out calls in flight at once.
MaxPending == 1
\* Largest number of rows the Person table holds.
MaxPersonRows == 2
\* Largest number of rows the Transaction table holds.
MaxTransactions == 1
\* Largest number of calls in flight that were sent by pages that have been
\* unmounted since.
MaxStaleOps == 1
\* Files dropped on the bills page in one visit.
MaxFiles == 3

----------------------------------------------------------------------------
(* Values *)

\* JavaScript null.
Null == [tag |-> "null"]

TEST_USER == [email |-> "test@example.com", password |-> "password123"]

MockUserId == "test-user-id-12345"

InvalidCredentialsMessage ==
  "Invalid test credentials. Use test@example.com / password123"

\* Message carried by an error object returned by the remote auth service.
RemoteErrorMessage == "remote auth error"

\* The error field of a remote result that carries no error.
NoError == "no error"

\* Credentials a user can type into the login form.
Emails == {"test@example.com", "x@y.com"}
Passwords == {"password123", "wrong"}

PrivKeys == {"can_add_expense", "can_add_income", "can_view_reports",
             "can_upload_bills", "can_download_reports"}

\* The literal passed to setPrivileges in the fallback branches.
DefaultPrivileges == [k \in PrivKeys |-> TRUE]

\* Rows the user_privileges table may hold for an identity: every flag true,
\* and a row with one flag false and one column missing.
StoredRows ==
  { DefaultPrivileges,
    [k \in PrivKeys \ {"can_upload_bills"} |-> k # "can_add_expense"] }

\* Variant of createMockUser that makes up a new id at every call.
createMockUser_freshId(t) ==
  [id |-> IF t = 0 THEN MockUserId ELSE "test-user-id-other",
   email |-> TEST_USER.email, created_at |-> t]

createMockUser(t) ==
  [id |-> MockUserId, email |-> TEST_USER.email, created_at |-> t]

createMockSession(t) ==
  [access_token |-> "mock-access-token", refresh_token |-> "mock-refresh-token",
   expires_at |-> t + 3600, user |-> createMockUser(t)]

\* Identities and sessions issued by the remote auth service.
RemoteId == [e \in Emails |->
               IF e = "test@example.com" THEN "remote-id-1" ELSE "remote-id-2"]

RemoteUser(e) == [id |-> RemoteId[e], email |-> e, created_at |-> 0]

RemoteSession(e) ==
  [access_token |-> "remote-access-token",
   refresh_token |-> "remote-refresh-token",
   expires_at |-> 3600, user |-> RemoteUser(e)]

RemoteSessions == {RemoteSession(e) : e \in Emails}

UserIds == {MockUserId} \cup {RemoteId[e] : e \in Emails}

\* Variant of SessionUser that never finds a user in the session.
SessionUser_alwaysAbsent(s) == Null

\* session?.user ?? null
SessionUser(s) == IF s = Null THEN Null ELSE s.user

\* localStorage values of the key test_auth: absent (getItem gives null), the
\* text written by JSON.stringify, or text that JSON.parse rejects.
JSONStringify(v) == [json |-> v]
UnparseableText == [raw |-> "{not json"]
JSONParses(s) == "json" \in DOMAIN s
JSONParse(s) == s.json

\* Times the wall clock can show when it is read.
Clock == 0..MaxClock

Routes == {"/", "/login", "/dashboard"}

\* Value of navTarget when no navigation is under way.
NoTarget == "none"

\* Routes rendered inside DashboardLayout, i.e. under ProtectedRoute.
DashboardRoutes ==
  {"/dashboard", "/dashboard/expenses/add", "/dashboard/income/add",
   "/dashboard/reports", "/dashboard/bills", "/dashboard/downloads"}
IsDashboardRoute(p) == p \in DashboardRoutes

\* Routes of the two pages that add a transaction, and the direction of the
\* transactions each of them adds.
AddRoutes == {"/dashboard/expenses/add", "/dashboard/income/add"}
Direction(p) == IF p = "/dashboard/income/add" THEN "INCOME" ELSE "EXPENSE"

\* The strings the two pages pass to setError.
NotLoggedInMessage(p) ==
  IF p = "/dashboard/income/add" THEN "You must be logged in to add income"
  ELSE "You must be logged in to add expenses"
RequiredFieldsMessage == "Please fill in all required fields"
TypesFailedMessage(p) ==
  IF p = "/dashboard/income/add" THEN "Failed to load income sources"
  ELSE "Failed to load expense categories"
AddFailedMessage(p) ==
  IF p = "/dashboard/income/add" THEN "Failed to add income"
  ELSE "Failed to add expense"

\* personId while no Person row is known: useState<string | null>(null).
\* PersonIDs of rows are the positive numbers.
NoPersonId == 0

\* Rows of the Type table joined with their Category, in the order of their
\* names.
TypeTable ==
  << [TypeID |-> "type-food", Name |-> "Food",
      Category |-> [Name |-> "Living", Type |-> "EXPENSE"]],
     [TypeID |-> "type-salary", Name |-> "Salary",
      Category |-> [Name |-> "Work", Type |-> "INCOME"]] >>

\* What the user can type into the amount and date inputs.
Amounts == {"", "12.50"}
Today == "2024-01-15"
Dates == {"", Today}

\* The message of the error a failed Transaction insert carries; it may be
\* empty.
InsertErrorMessages == {"", "new row violates row-level security policy"}

----------------------------------------------------------------------------
(* State *)

VARIABLES
  mode,            \* TEST_MODE: "test" (fallback) or "remote" (delegated)
  phase,           \* "mounting": provider rendered, its effect not yet run
  user,            \* useState user
  session,         \* useState session
  privileges,      \* useState privileges
  loading,         \* useState loading
  storage,         \* localStorage item test_auth
  libSession,      \* session held by the remote auth client
  getSessionPending, \* supabase.auth.getSession() in flight
  lookups,         \* fetchPrivileges calls in flight, per user id
  pathname,        \* current route
  navTarget,       \* target of the latest router.push not yet completed
  guardView,       \* what ProtectedRoute rendered at the last commit
  pushes,          \* router.push calls issued by the last step, in order
  loginPending,    \* login page: remote signIn/signUp call in flight
  loginError,      \* login page: error state
  loginLoading,    \* login page: loading (submitting) state
  signOutPending,  \* remote signOut calls in flight, per caller
  lastCall         \* the provider operation the last step ran, and its result

\* The add-expense / add-income page and the tables it works on.
VARIABLES
  Person,          \* rows of the Person table, in order of creation
  Transaction,     \* number of rows of the Transaction table
  personOp,        \* fetchOrCreatePerson of the mounted page: the call it awaits
  stalePersonOps,  \* fetchOrCreatePerson runs of unmounted pages, per awaited call
  typesPending,    \* the mounted page's Type query is in flight
  txOp,            \* handleSubmit of the mounted page: the row whose insert it awaits
  staleTx,         \* Transaction inserts awaited by handleSubmit of unmounted pages
  timers,          \* setTimeout callbacks waiting to run
  formData,        \* useState formData (amount, typeId, date)
  typeOptions,     \* useState expenseTypes / incomeTypes
  personId,        \* useState personId
  pageLoading,     \* useState loading of the page
  loadingTypes,    \* useState loadingTypes
  success,         \* useState success
  pageError,       \* useState error of the page
  sent             \* the database calls sent by the last step, in order

\* The bills page.
VARIABLES
  files,           \* useState files: the list of entries
  uploading,       \* useState uploading
  uploadRun,       \* the uploadFiles call in flight: its files and its index
  dropped,         \* number of files dropped on the page so far
  updates          \* the status updates the last step applied to the list

authVars == <<mode, phase, user, session, privileges, loading, storage,
              libSession, getSessionPending, lookups, loginPending,
              loginError, loginLoading, signOutPending>>

billVars == <<files, uploading, uploadRun, dropped, updates>>

addVars == <<Person, Transaction, personOp, stalePersonOps, typesPending,
             txOp, staleTx, timers, formData, typeOptions, personId,
             pageLoading, loadingTypes, success, pageError, sent>>

vars == <<mode, phase, user, session, privileges, loading, storage,
          libSession, getSessionPending, lookups, pathname, navTarget,
          guardView, pushes, loginPending, loginError, loginLoading,
          signOutPending, lastCall, Person, Transaction, personOp,
          stalePersonOps, typesPending, txOp, staleTx, timers, formData,
          typeOptions, personId, pageLoading, loadingTypes, success,
          pageError, sent, files, uploading, uploadRun, dropped, updates>>

\* The number of calls in flight that unmounted pages sent.
StaleOps == stalePersonOps.select + stalePersonOps.insert + staleTx

\* The value of txOp while handleSubmit awaits nothing.
NoInsert == [tag |-> "none"]

\* The state of an add page as its useState calls initialise it; also the
\* value the page's variables have while no add page is mounted.
PageInitialState ==
  /\ formData = [amount |-> "", typeId |-> "", date |-> Today]
  /\ typeOptions = <<>>
  /\ personId = NoPersonId
  /\ pageLoading = FALSE
  /\ loadingTypes = TRUE
  /\ success = FALSE
  /\ pageError = ""

\* The page's variables take their initial values.
MountPage ==
  /\ formData' = [amount |-> "", typeId |-> "", date |-> Today]
  /\ typeOptions' = <<>>
  /\ personId' = NoPersonId
  /\ pageLoading' = FALSE
  /\ loadingTypes' = TRUE
  /\ success' = FALSE
  /\ pageError' = ""

\* The bills page was never used: its list is empty and no upload runs.
NoBillsPageYet ==
  /\ files = <<>> /\ uploading = FALSE
  /\ uploadRun = Null
  /\ dropped = 0
  /\ updates = <<>>

\* No add page was ever mounted: the tables are empty and nothing is in
\* flight.
NoAddPageYet ==
  /\ Person = <<>> /\ Transaction = 0
  /\ personOp = "none"
  /\ stalePersonOps = [select |-> 0, insert |-> 0]
  /\ typesPending = FALSE
  /\ txOp = NoInsert /\ staleTx = 0
  /\ timers = 0
  /\ PageInitialState
  /\ sent = <<>>

NoCall == [op |-> "none", args |-> <<>>, error |-> ""]
Call(op, args, error) == [op |-> op, args |-> args, error |-> error]

Callers == {"sidebar", "consumer"}

RECURSIVE SumOver(_, _)
SumOver(f, S) ==
  IF S = {} THEN 0
  ELSE LET x == CHOOSE y \in S : TRUE IN f[x] + SumOver(f, S \ {x})

InFlight == SumOver(lookups, UserIds)
SignOutsInFlight == SumOver(signOutPending, Callers)

----------------------------------------------------------------------------
(* Consumers of the context *)

\* Variant of GuardRender without the check for a missing user.
GuardRender_skipUserCheck(ld, u) ==
  IF ld THEN "placeholder" ELSE "children"

\* ProtectedRoute render: placeholder while loading, nothing without a user,
\* otherwise the children (Sidebar and the feature page).
GuardRender(ld, u) ==
  IF ld THEN "placeholder"
  ELSE IF u = Null THEN "null"
  ELSE "children"

View(p, ld, u) == IF IsDashboardRoute(p) THEN GuardRender(ld, u) ELSE "unmounted"

Push(by, to) == [by |-> by, to |-> to]

\* Variant of GuardEffect that never redirects.
GuardEffect_noRedirect(ld, u) == <<>>

\* Body of the ProtectedRoute effect.
GuardEffect(ld, u) ==
  IF ~ld /\ u = Null THEN <<Push("guard", "/login")>> ELSE <<>>

\* Body of the HomePage effect.
HomeEffect(ld, u) ==
  IF ~ld
  THEN IF u # Null THEN <<Push("home", "/dashboard")>>
       ELSE <<Push("home", "/login")>>
  ELSE <<>>

\* Effects that run when the page at route p mounts.
MountEffects(p, ld, u) ==
  IF IsDashboardRoute(p) THEN GuardEffect(ld, u)
  ELSE IF p = "/" THEN HomeEffect(ld, u)
  ELSE <<>>

\* Variant of UpdateEffects for effects declared without a dependency list:
\* they run at every commit.
UpdateEffects_everyCommit(p, oldLd, oldU, newLd, newU) ==
  MountEffects(p, newLd, newU)

\* Effects that run at a commit of the page at route p: only when one of the
\* dependencies [user, loading] changed.
UpdateEffects(p, oldLd, oldU, newLd, newU) ==
  IF oldLd = newLd /\ oldU = newU THEN <<>> ELSE MountEffects(p, newLd, newU)

Last(s) == s[Len(s)]

\* The React commit that follows a step: consumers re-render with the new
\* provider state, effects with changed dependencies run, then the rest of
\* the handler (its router.push calls) runs.
Commit(handlerPushes) ==
  /\ guardView' = View(pathname, loading', user')
  /\ pushes' = UpdateEffects(pathname, loading, user, loading', user')
                 \o handlerPushes
  /\ navTarget' = IF pushes' = <<>> THEN navTarget ELSE Last(pushes').to

\* The first commit after a page load: the effects of the page run on mount
\* (children before parents), then the provider's effect runs and its state
\* updates are committed.
FirstCommit ==
  /\ guardView' = View(pathname, loading', user')
  /\ pushes' = MountEffects(pathname, loading, user)
                 \o UpdateEffects(pathname, loading, user, loading', user')
  /\ navTarget' = IF pushes' = <<>> THEN navTarget ELSE Last(pushes').to

\* A NavItem without privilegeKey.
NoPrivilegeKey == "undefined"

\* Variant of hasPrivilege that hides keyed entries while the privilege set
\* is null.
hasPrivilege_failClosed(privilegeKey, privs) ==
  IF privilegeKey = NoPrivilegeKey THEN TRUE
  ELSE privs # Null /\ privilegeKey \in DOMAIN privs /\ privs[privilegeKey] = TRUE

\* Sidebar.hasPrivilege
hasPrivilege(privilegeKey, privs) ==
  IF privilegeKey = NoPrivilegeKey \/ privs = Null THEN TRUE
  ELSE privilegeKey \in DOMAIN privs /\ privs[privilegeKey] = TRUE

navItems ==
  << [name |-> "Dashboard", href |-> "/dashboard",
      privilegeKey |-> NoPrivilegeKey],
     [name |-> "Add Expense", href |-> "/dashboard/expenses/add",
      privilegeKey |-> "can_add_expense"],
     [name |-> "Add Income", href |-> "/dashboard/income/add",
      privilegeKey |-> "can_add_income"],
     [name |-> "Reports & Analytics", href |-> "/dashboard/reports",
      privilegeKey |-> "can_view_reports"],
     [name |-> "Upload Bills", href |-> "/dashboard/bills",
      privilegeKey |-> "can_upload_bills"],
     [name |-> "Download Reports", href |-> "/dashboard/downloads",
      privilegeKey |-> "can_download_reports"] >>

\* Indices of the entries the Sidebar renders.
VisibleItems(privs) ==
  {i \in 1..Len(navItems) : hasPrivilege(navItems[i].privilegeKey, privs)}

----------------------------------------------------------------------------
(* Initial state: the page has just been loaded at some route; the provider *)
(* and the page have rendered with their useState initial values and no     *)
(* effect has run yet.  The key test_auth is used by the fallback mode      *)
(* only; it may hold a record written by an earlier visit.                  *)

Init ==
  /\ mode \in {"test", "remote"}
  /\ phase = "mounting"
  /\ user = Null /\ session = Null /\ privileges = Null /\ loading = TRUE
  /\ storage \in IF mode = "test"
                 THEN {Null, UnparseableText}
                        \cup {JSONStringify([user |-> createMockUser(0),
                                             session |-> createMockSession(0)])}
                 ELSE {Null}
  /\ libSession \in IF mode = "remote" THEN {Null} \cup RemoteSessions
                    ELSE {Null}
  /\ getSessionPending = FALSE
  /\ lookups = [i \in UserIds |-> 0]
  /\ pathname \in Routes
  /\ navTarget = NoTarget
  /\ guardView = View(pathname, TRUE, Null)
  /\ pushes = <<>>
  /\ loginPending = Null /\ loginError = "" /\ loginLoading = FALSE
  /\ signOutPending = [c \in Callers |-> 0]
  /\ lastCall = NoCall
  /\ NoAddPageYet
  /\ NoBillsPageYet

----------------------------------------------------------------------------
(* The privilege resolver *)

\* The ways a lookup fails: the query returns an error object (which is also
\* how .single() reports that no row exists), or the call throws.
LookupFailures == {"error", "throw"}

\* What a user_privileges query can come back with.
LookupOutcomes ==
  {[kind |-> "data", row |-> r] : r \in StoredRows}
    \cup {[kind |-> k, row |-> Null] : k \in LookupFailures}

\* fetchPrivileges up to its await: the query for userId is sent.
fetchPrivilegesStart(userId) ==
  /\ InFlight < MaxLookups
  /\ lookups' = [lookups EXCEPT ![userId] = @ + 1]

\* fetchPrivileges after its await: o is what the query came back with, err
\* the message of the error the call rejects with ("" when it resolves).
fetchPrivileges(o, err) ==
  /\ IF o.kind = "throw" THEN privileges' = Null
     ELSE IF o.kind = "error"
          THEN privileges' = DefaultPrivileges
          ELSE privileges' = o.row
  /\ err = ""

----------------------------------------------------------------------------
(* Provider operations, TEST_MODE branches *)

ErrorMessages == {"", InvalidCredentialsMessage, RemoteErrorMessage}

\* Variant of signIn that accepts a credential pair as soon as one of its
\* two parts matches.
signIn_eitherMatches(email, password, t, err) ==
  IF email = TEST_USER.email \/ password = TEST_USER.password
  THEN /\ user' = createMockUser(t)
       /\ session' = createMockSession(t)
       /\ privileges' = DefaultPrivileges
       /\ storage' = JSONStringify([user |-> createMockUser(t),
                                    session |-> createMockSession(t)])
       /\ err = ""
  ELSE /\ UNCHANGED <<user, session, privileges, storage>>
       /\ err = InvalidCredentialsMessage

\* signIn in test mode, called at time t; err is the message of the thrown
\* Error, "" if none.
signIn(email, password, t, err) ==
  IF email = TEST_USER.email /\ password = TEST_USER.password
  THEN /\ user' = createMockUser(t)
       /\ session' = createMockSession(t)
       /\ privileges' = DefaultPrivileges
       /\ storage' = JSONStringify([user |-> createMockUser(t),
                                    session |-> createMockSession(t)])
       /\ err = ""
  ELSE /\ UNCHANGED <<user, session, privileges, storage>>
       /\ err = InvalidCredentialsMessage

\* Variant of signUp that checks the credentials the way signIn does.
signUp_checksCredentials(email, password, t, err) ==
  IF email = TEST_USER.email /\ password = TEST_USER.password
  THEN /\ user' = createMockUser(t)
       /\ session' = createMockSession(t)
       /\ privileges' = DefaultPrivileges
       /\ storage' = JSONStringify([user |-> createMockUser(t),
                                    session |-> createMockSession(t)])
       /\ err = ""
  ELSE /\ UNCHANGED <<user, session, privileges, storage>>
       /\ err = InvalidCredentialsMessage

\* signUp in test mode, called at time t.
signUp(email, password, t, err) ==
  /\ user' = createMockUser(t)
  /\ session' = createMockSession(t)
  /\ privileges' = DefaultPrivileges
  /\ storage' = JSONStringify([user |-> createMockUser(t),
                               session |-> createMockSession(t)])
  /\ err = ""

\* Variant of signOut that leaves the persisted record in place.
signOut_keepsStorage(err) ==
  /\ UNCHANGED storage
  /\ user' = Null
  /\ session' = Null
  /\ privileges' = Null
  /\ err = ""

\* signOut in test mode.
signOut(err) ==
  /\ storage' = Null
  /\ user' = Null
  /\ session' = Null
  /\ privileges' = Null
  /\ err = ""

\* signIn / signUp / signOut in remote mode, after the awaited call returned
\* the error object e (NoError when there is none): if (error) throw error.
throwIfError(e, err) == err = IF e = NoError THEN "" ELSE e

\* The callback registered with supabase.auth.onAuthStateChange.
onAuthStateChange(s) ==
  /\ session' = s
  /\ user' = SessionUser(s)
  /\ IF SessionUser(s) # Null
     THEN fetchPrivilegesStart(s.user.id) /\ UNCHANGED privileges
     ELSE privileges' = Null /\ UNCHANGED lookups
  /\ loading' = FALSE

\* The continuation of supabase.auth.getSession().
getSessionThen(s) ==
  /\ session' = s
  /\ user' = SessionUser(s)
  /\ IF SessionUser(s) # Null
     THEN fetchPrivilegesStart(s.user.id)
     ELSE UNCHANGED lookups
  /\ UNCHANGED privileges
  /\ loading' = FALSE

NoCommit == pushes' = <<>> /\ UNCHANGED <<guardView, navTarget>>

----------------------------------------------------------------------------
(* Steps *)

\* Variant of BootstrapTest that does not read the persisted record.
BootstrapTest_ignoresStorage ==
  /\ phase = "mounting" /\ mode = "test"
  /\ phase' = "ready"
  /\ UNCHANGED <<user, session, privileges, storage>>
  /\ loading' = FALSE
  /\ FirstCommit
  /\ lastCall' = Call("bootstrap", <<>>, "")
  /\ UNCHANGED <<mode, libSession, getSessionPending, lookups, pathname,
                 loginPending, loginError, loginLoading, signOutPending>>
  /\ UNCHANGED <<addVars, billVars>>

\* AuthProvider effect, TEST_MODE branch.
BootstrapTest ==
  /\ phase = "mounting" /\ mode = "test"
  /\ phase' = "ready"
  /\ IF storage # Null
     THEN IF JSONParses(storage)
          THEN /\ user' = JSONParse(storage).user
               /\ session' = JSONParse(storage).session
               /\ privileges' = DefaultPrivileges
               /\ UNCHANGED storage
          ELSE /\ storage' = Null
               /\ UNCHANGED <<user, session, privileges>>
     ELSE UNCHANGED <<user, session, privileges, storage>>
  /\ loading' = FALSE
  /\ FirstCommit
  /\ lastCall' = Call("bootstrap", <<>>, "")
  /\ UNCHANGED <<mode, libSession, getSessionPending, lookups, pathname,
                 loginPending, loginError, loginLoading, signOutPending>>
  /\ UNCHANGED <<addVars, billVars>>

\* AuthProvider effect, remote branch: getSession is sent and the auth
\* listener is registered.
BootstrapRemote ==
  /\ phase = "mounting" /\ mode = "remote"
  /\ phase' = "ready"
  /\ getSessionPending' = TRUE
  /\ UNCHANGED <<user, loading>>
  /\ FirstCommit
  /\ lastCall' = Call("bootstrap", <<>>, "")
  /\ UNCHANGED <<mode, session, privileges, storage, libSession, lookups,
                 pathname, loginPending, loginError, loginLoading,
                 signOutPending>>
  /\ UNCHANGED <<addVars, billVars>>

\* getSession settles: it resolves with the client's session, or it rejects
\* and the .then callback never runs.
GetSessionResolve ==
  /\ mode = "remote" /\ getSessionPending
  /\ getSessionPending' = FALSE
  /\ \/ getSessionThen(libSession) /\ Commit(<<>>)
     \/ UNCHANGED <<user, session, privileges, loading, lookups>> /\ NoCommit
  /\ lastCall' = Call("getSession", <<>>, "")
  /\ UNCHANGED <<mode, phase, storage, libSession, pathname,
                 loginPending, loginError, loginLoading, signOutPending>>
  /\ UNCHANGED <<addVars, billVars>>

\* The auth client reports a session change that no operation of this page
\* caused (initial session, token refresh, sign-in or sign-out elsewhere).
AuthStateChange ==
  /\ mode = "remote" /\ phase = "ready"
  /\ \E s \in {Null} \cup RemoteSessions :
       /\ libSession' = s
       /\ onAuthStateChange(s)
  /\ Commit(<<>>)
  /\ lastCall' = Call("onAuthStateChange", <<>>, "")
  /\ UNCHANGED <<mode, phase, storage, getSessionPending, pathname,
                 loginPending, loginError, loginLoading, signOutPending>>
  /\ UNCHANGED <<addVars, billVars>>

\* A fetchPrivileges call in flight settles.
LookupComplete ==
  /\ \E uid \in UserIds, o \in LookupOutcomes, err \in ErrorMessages :
       /\ lookups[uid] > 0
       /\ lookups' = [lookups EXCEPT ![uid] = @ - 1]
       /\ fetchPrivileges(o, err)
       /\ lastCall' = Call("fetchPrivileges", <<o.kind>>, err)
  /\ UNCHANGED <<user, session, loading>>
  /\ Commit(<<>>)
  /\ UNCHANGED <<mode, phase, storage, libSession, getSessionPending,
                 pathname, loginPending, loginError, loginLoading,
                 signOutPending>>
  /\ UNCHANGED <<addVars, billVars>>

\* Variant of refreshPrivileges that looks up the mock identity's privileges
\* when no identity is present.
refreshPrivileges_withoutUser ==
  /\ phase = "ready"
  /\ IF user # Null THEN fetchPrivilegesStart(user.id)
     ELSE fetchPrivilegesStart(MockUserId)
  /\ NoCommit
  /\ lastCall' = Call("refreshPrivileges", <<>>, "")
  /\ UNCHANGED <<mode, phase, user, session, privileges, loading, storage,
                 libSession, getSessionPending, pathname, loginPending,
                 loginError, loginLoading, signOutPending>>
  /\ UNCHANGED <<addVars, billVars>>

\* refreshPrivileges, called by any consumer of the context.
refreshPrivileges ==
  /\ phase = "ready"
  /\ IF user # Null THEN fetchPrivilegesStart(user.id) ELSE UNCHANGED lookups
  /\ NoCommit
  /\ lastCall' = Call("refreshPrivileges", <<>>, "")
  /\ UNCHANGED <<mode, phase, user, session, privileges, loading, storage,
                 libSession, getSessionPending, pathname, loginPending,
                 loginError, loginLoading, signOutPending>>
  /\ UNCHANGED <<addVars, billVars>>

\* Variant of LoginErrorText that shows the default text for every error.
LoginErrorText_alwaysDefault(message) == "An error occurred"

\* err.message || 'An error occurred'
LoginErrorText(message) ==
  IF message # "" THEN message ELSE "An error occurred"

\* LoginPage.handleSubmit.  In test mode signIn/signUp never wait for the
\* network, so the handler runs to its end; in remote mode it stops at the
\* awaited auth call.
LoginSubmit ==
  /\ phase = "ready" /\ pathname = "/login"
  /\ ~loginLoading /\ loginPending = Null
  /\ \E isLogin \in BOOLEAN, email \in Emails, password \in Passwords :
       IF mode = "test"
       THEN /\ \E t \in Clock, err \in ErrorMessages :
                 /\ IF isLogin THEN signIn(email, password, t, err)
                    ELSE signUp(email, password, t, err)
                 /\ loginError' = IF err = "" THEN "" ELSE LoginErrorText(err)
                 /\ lastCall' = Call(IF isLogin THEN "signIn" ELSE "signUp",
                                     <<email, password>>, err)
                 /\ UNCHANGED loading
                 /\ Commit(IF err = "" THEN <<Push("login", "/dashboard")>>
                           ELSE <<>>)
            /\ UNCHANGED <<loginPending, loginLoading>>
       ELSE /\ loginPending' = [isLogin |-> isLogin, email |-> email,
                                password |-> password, page |-> TRUE]
            /\ loginLoading' = TRUE
            /\ loginError' = ""
            /\ lastCall' = NoCall
            /\ NoCommit
            /\ UNCHANGED <<user, session, privileges, loading, storage>>
  /\ UNCHANGED <<mode, phase, libSession, getSessionPending, lookups,
                 pathname, signOutPending>>
  /\ UNCHANGED <<addVars, billVars>>

\* The remote signInWithPassword / signUp call settles and the rest of
\* signIn / signUp and of LoginPage.handleSubmit runs.  On success the auth
\* client has adopted the new session and notified the listener (a sign-up
\* that needs e-mail confirmation yields no session and no notification).
LoginResolve ==
  /\ mode = "remote" /\ loginPending # Null
  /\ \E e \in {NoError, RemoteErrorMessage}, withSession \in BOOLEAN,
        err \in ErrorMessages :
       /\ throwIfError(e, err)
       /\ (loginPending.isLogin /\ e = NoError) => withSession
       /\ e # NoError => ~withSession
       /\ IF withSession
          THEN /\ libSession' = RemoteSession(loginPending.email)
               /\ onAuthStateChange(RemoteSession(loginPending.email))
          ELSE UNCHANGED <<libSession, user, session, privileges, loading,
                           lookups>>
       /\ lastCall' = Call(IF loginPending.isLogin THEN "signIn" ELSE "signUp",
                           <<loginPending.email>>, err)
       /\ loginError' = IF loginPending.page /\ err # ""
                        THEN LoginErrorText(err)
                        ELSE loginError
       /\ Commit(IF err = "" THEN <<Push("login", "/dashboard")>> ELSE <<>>)
  /\ loginLoading' = IF loginPending.page THEN FALSE ELSE loginLoading
  /\ loginPending' = Null
  /\ UNCHANGED <<mode, phase, storage, getSessionPending, pathname,
                 signOutPending>>
  /\ UNCHANGED <<addVars, billVars>>

\* signOut called by caller c: in test mode it runs to its end, in remote
\* mode it stops at the awaited supabase.auth.signOut().
signOutCall(c) ==
  IF mode = "test"
  THEN /\ \E err \in ErrorMessages :
            /\ signOut(err)
            /\ lastCall' = Call("signOut", <<c>>, err)
            /\ UNCHANGED loading
            /\ Commit(IF c = "sidebar" /\ err = ""
                      THEN <<Push("sidebar", "/login")>> ELSE <<>>)
       /\ UNCHANGED signOutPending
  ELSE /\ SignOutsInFlight < MaxPending
       /\ signOutPending' = [signOutPending EXCEPT ![c] = @ + 1]
       /\ lastCall' = NoCall
       /\ NoCommit
       /\ UNCHANGED <<user, session, privileges, loading, storage>>

\* Sidebar.handleSignOut: the Sidebar is on screen only when the guard
\* renders its children.
handleSignOut ==
  /\ phase = "ready" /\ guardView = "children"
  /\ signOutCall("sidebar")
  /\ UNCHANGED <<mode, phase, libSession, getSessionPending, lookups,
                 pathname, loginPending, loginError, loginLoading>>
  /\ UNCHANGED <<addVars, billVars>>

\* signOut called by any other consumer of the context.
ConsumerSignOut ==
  /\ phase = "ready"
  /\ signOutCall("consumer")
  /\ UNCHANGED <<mode, phase, libSession, getSessionPending, lookups,
                 pathname, loginPending, loginError, loginLoading>>
  /\ UNCHANGED <<addVars, billVars>>

\* The remote signOut call settles.  On success the auth client has dropped
\* its session and notified the listener; then the rest of signOut and of
\* the caller runs.
SignOutResolve ==
  /\ mode = "remote"
  /\ \E c \in Callers, e \in {NoError, RemoteErrorMessage}, err \in ErrorMessages :
       /\ signOutPending[c] > 0
       /\ signOutPending' = [signOutPending EXCEPT ![c] = @ - 1]
       /\ throwIfError(e, err)
       /\ IF e = NoError
          THEN libSession' = Null /\ onAuthStateChange(Null)
          ELSE UNCHANGED <<libSession, user, session, privileges, loading,
                           lookups>>
       /\ lastCall' = Call("signOut", <<c>>, err)
       /\ Commit(IF c = "sidebar" /\ err = ""
                 THEN <<Push("sidebar", "/login")>> ELSE <<>>)
  /\ UNCHANGED <<mode, phase, storage, getSessionPending, pathname,
                 loginPending, loginError, loginLoading>>
  /\ UNCHANGED <<addVars, billVars>>

\* The navigation started by the latest router.push completes: the page of
\* the new route mounts and its effects run.  A push to the current route
\* mounts nothing.
NavComplete ==
  /\ navTarget # NoTarget
  /\ pathname' = navTarget
  /\ guardView' = View(pathname', loading, user)
  /\ pushes' = IF pathname' = pathname THEN <<>>
               ELSE MountEffects(pathname', loading, user)
  /\ navTarget' = IF pushes' = <<>> THEN NoTarget ELSE Last(pushes').to
  /\ IF pathname = "/login" /\ pathname' # "/login"
     THEN /\ loginError' = "" /\ loginLoading' = FALSE
          /\ loginPending' = IF loginPending = Null THEN Null
                             ELSE [loginPending EXCEPT !.page = FALSE]
     ELSE UNCHANGED <<loginError, loginLoading, loginPending>>
  /\ lastCall' = NoCall
  /\ UNCHANGED <<mode, phase, user, session, privileges, loading, storage,
                 libSession, getSessionPending, lookups, signOutPending>>
  /\ UNCHANGED <<addVars, billVars>>

\* The browser loads the application afresh at route p: every component
\* state is back at its initial value, nothing is in flight any more, and
\* only localStorage and the auth client's own session survive.
Reload ==
  /\ \E p \in Routes :
       /\ pathname' = p
       /\ guardView' = View(p, TRUE, Null)
  /\ phase' = "mounting"
  /\ user' = Null /\ session' = Null /\ privileges' = Null /\ loading' = TRUE
  /\ getSessionPending' = FALSE
  /\ lookups' = [i \in UserIds |-> 0]
  /\ navTarget' = NoTarget
  /\ pushes' = <<>>
  /\ loginPending' = Null /\ loginError' = "" /\ loginLoading' = FALSE
  /\ signOutPending' = [c \in Callers |-> 0]
  /\ lastCall' = NoCall
  /\ UNCHANGED <<mode, storage, libSession>>
  /\ UNCHANGED <<addVars, billVars>>

Next ==
  \/ BootstrapTest
  \/ BootstrapRemote
  \/ GetSessionResolve
  \/ AuthStateChange
  \/ LookupComplete
  \/ refreshPrivileges
  \/ LoginSubmit
  \/ LoginResolve
  \/ handleSignOut
  \/ ConsumerSignOut
  \/ SignOutResolve
  \/ NavComplete
  \/ Reload

Spec == Init /\ [][Next]_vars

TypeOK ==
  /\ mode \in {"test", "remote"}
  /\ phase \in {"mounting", "ready"}
  /\ loading \in BOOLEAN
  /\ pathname \in Routes
  /\ guardView \in {"unmounted", "placeholder", "null", "children"}
  /\ InFlight <= MaxLookups
  /\ SignOutsInFlight <= MaxPending

----------------------------------------------------------------------------
(* The add-expense / add-income pages: database calls *)

\* A database call as recorded in sent.
DbCall(table, verb) == [table |-> table, verb |-> verb]

\* How a call can come back apart from what the tables hold: answered by the
\* database, answered with an error object, or the awaited promise rejects.
Transports == {"ok", "error", "throw"}

\* from('Person').select('PersonID').eq('Name', name): the matching rows.
PersonRowsNamed(name) == {i \in 1..Len(Person) : Person[i].Name = name}

\* .single(): the row when exactly one row matches, otherwise an error.
Single(ids) ==
  IF Cardinality(ids) = 1
  THEN [kind |-> "data", reason |-> "",
        PersonID |-> Person[CHOOSE i \in ids : TRUE].PersonID]
  ELSE [kind |-> "error",
        reason |-> IF ids = {} THEN "no rows" ELSE "multiple rows"]

\* The result of the Person lookup of fetchOrCreatePerson.
SelectPerson(name, o) ==
  IF o = "ok" THEN Single(PersonRowsNamed(name))
  ELSE [kind |-> o, reason |-> "transport"]

\* Name: user.email || 'Unknown User'
PersonName(u) == IF u.email # "" THEN u.email ELSE "Unknown User"

\* from('Person').insert({Name}): the table has no uniqueness rule the
\* client could rely on, the row is added whatever rows exist.
InsertPerson(name) ==
  Person' = Append(Person, [PersonID |-> Len(Person) + 1, Name |-> name])

\* from('Type').select(... Category!inner ...).eq('Category.Type', dir)
\* .order('Name'): the TypeIDs of the matching rows, in the order of their
\* names (TypeTable lists its rows in that order).
IsExpenseType(r) == r.Category.Type = "EXPENSE"
IsIncomeType(r) == r.Category.Type = "INCOME"
RECURSIVE TypeIDs(_)
TypeIDs(rows) ==
  IF rows = <<>> THEN <<>> ELSE <<Head(rows).TypeID>> \o TypeIDs(Tail(rows))
\* Variant of SelectTypes without the filter on the Category direction.
SelectTypes_unfiltered(dir) == TypeIDs(TypeTable)

\* from('Type').select(...).eq('Category.Type', dir).order('Name')
SelectTypes(dir) ==
  TypeIDs(IF dir = "EXPENSE" THEN SelectSeq(TypeTable, IsExpenseType)
          ELSE SelectSeq(TypeTable, IsIncomeType))

\* parseFloat of the amount input's text, in hundredths.
parseFloat(text) == IF text = "12.50" THEN 1250 ELSE 0

----------------------------------------------------------------------------
(* The add-expense / add-income pages: component *)

OnAddPage == pathname \in AddRoutes

\* The calls sent and the operation run by a step of the page; such a step
\* pushes no route unless it says so.
PageStep(call, calls) ==
  /\ lastCall' = call
  /\ sent' = calls
  /\ UNCHANGED <<authVars, guardView, billVars>>

NoPush == pushes' = <<>> /\ UNCHANGED navTarget

\* fetchOrCreatePerson up to its first await: the call it awaits next.
fetchOrCreatePersonStart(u) == IF u = Null THEN "none" ELSE "select"

\* Variant of fetchOrCreatePersonThen that never creates a row.
fetchOrCreatePersonThen_neverInserts(r) == "none"

\* fetchOrCreatePerson after the lookup returned r: the call it awaits next.
\* A rejected await ends in the catch block; any error object, or no row,
\* leads to the insert.
fetchOrCreatePersonThen(r) ==
  IF r.kind = "throw" THEN "none"
  ELSE IF r.kind = "error" THEN "insert"
  ELSE "none"

\* Variant of SubmitErrorText without the default text.
SubmitErrorText_noDefault(p, message) == message

\* err.message || 'Failed to add expense'
SubmitErrorText(p, message) ==
  IF message # "" THEN message ELSE AddFailedMessage(p)

\* The user opens an add page from the dashboard: the page mounts with its
\* initial state and its effect starts the Type query and
\* fetchOrCreatePerson.
OpenAddPage ==
  /\ pathname = "/dashboard" /\ guardView = "children"
  /\ \E p \in AddRoutes : pathname' = p
  /\ navTarget' = NoTarget /\ pushes' = <<>>
  /\ MountPage
  /\ typesPending' = TRUE
  /\ personOp' = fetchOrCreatePersonStart(user)
  /\ PageStep(NoCall,
              <<DbCall("Type", "select")>>
                \o (IF user = Null THEN <<>>
                    ELSE <<DbCall("Person", "select")>>))
  /\ UNCHANGED <<Person, Transaction, stalePersonOps, txOp, staleTx, timers>>

\* The add page is left: a pending router.push completes, or the user
\* follows a link.  The page unmounts; no call in flight is cancelled, but
\* what the calls of an unmounted page pass to its setters is dropped.
LeaveAddPage ==
  /\ OnAddPage
  /\ pathname' = "/dashboard"
  /\ navTarget' = NoTarget /\ pushes' = <<>>
  /\ stalePersonOps' =
       IF personOp = "none" THEN stalePersonOps
       ELSE [stalePersonOps EXCEPT ![personOp] = @ + 1]
  /\ personOp' = "none"
  /\ typesPending' = FALSE
  /\ staleTx' = IF txOp = NoInsert THEN staleTx ELSE staleTx + 1
  /\ StaleOps' <= MaxStaleOps
  /\ txOp' = NoInsert
  /\ MountPage
  /\ PageStep(NoCall, <<>>)
  /\ UNCHANGED <<Person, Transaction, timers>>

\* The Person lookup of a fetchOrCreatePerson run comes back; the run
\* belongs to the mounted page (live) or to one unmounted since (stale).
PersonSelectComplete ==
  \E run \in {"live", "stale"}, o \in Transports :
    LET r == SelectPerson(user.email, o)
        next == fetchOrCreatePersonThen(r)
    IN /\ IF run = "live"
          THEN /\ personOp = "select"
               /\ personOp' = next
               /\ personId' = IF r.kind = "data" THEN r.PersonID ELSE personId
               /\ UNCHANGED stalePersonOps
          ELSE /\ stalePersonOps.select > 0
               /\ stalePersonOps' =
                    [select |-> stalePersonOps.select - 1,
                     insert |-> stalePersonOps.insert
                                  + (IF next = "insert" THEN 1 ELSE 0)]
               /\ UNCHANGED <<personOp, personId>>
       /\ PageStep(Call("fetchOrCreatePerson",
                        <<"select", run, r.kind, r.reason>>, ""),
                   IF next = "insert" THEN <<DbCall("Person", "insert")>>
                   ELSE <<>>)
       /\ NoPush
       /\ UNCHANGED <<Person, Transaction, typesPending, txOp, staleTx,
                      timers, formData, typeOptions, pageLoading,
                      loadingTypes, success, pageError, pathname>>

\* The Person insert of a fetchOrCreatePerson run comes back.  A failed
\* insert is logged and nothing else happens.
PersonInsertComplete ==
  \E run \in {"live", "stale"}, o \in Transports :
    /\ IF o = "ok"
       THEN Len(Person) < MaxPersonRows /\ InsertPerson(PersonName(user))
       ELSE UNCHANGED Person
    /\ IF run = "live"
       THEN /\ personOp = "insert"
            /\ personOp' = "none"
            /\ personId' = IF o = "ok" THEN Len(Person) + 1 ELSE personId
            /\ UNCHANGED stalePersonOps
       ELSE /\ stalePersonOps.insert > 0
            /\ stalePersonOps' = [stalePersonOps EXCEPT !.insert = @ - 1]
            /\ UNCHANGED <<personOp, personId>>
    /\ PageStep(Call("fetchOrCreatePerson",
                     <<"insert", run, IF o = "ok" THEN "data" ELSE "error",
                       "">>, ""),
                <<>>)
    /\ NoPush
    /\ UNCHANGED <<Transaction, typesPending, txOp, staleTx, timers,
                   formData, typeOptions, pageLoading, loadingTypes,
                   success, pageError, pathname>>

\* The Type query of fetchExpenseTypes / fetchIncomeTypes comes back: with
\* rows, with neither rows nor error, with an error object, or rejected.
TypesComplete ==
  /\ OnAddPage /\ typesPending
  /\ typesPending' = FALSE
  /\ \E o \in {"data", "null", "error", "throw"} :
       /\ typeOptions' = IF o = "data" THEN SelectTypes(Direction(pathname))
                         ELSE IF o = "null" THEN <<>>
                         ELSE typeOptions
       /\ pageError' = IF o \in {"error", "throw"}
                       THEN TypesFailedMessage(pathname) ELSE pageError
       /\ PageStep(Call("fetchTypes", <<o>>, ""), <<>>)
  /\ loadingTypes' = FALSE
  /\ NoPush
  /\ UNCHANGED <<Person, Transaction, personOp, stalePersonOps, txOp,
                 staleTx, timers, formData, personId, pageLoading, success,
                 pathname>>

\* The values the Category select offers.
RECURSIVE Range(_)
Range(q) == IF q = <<>> THEN {} ELSE {Head(q)} \cup Range(Tail(q))

\* handleChange, run by an input that is on screen and not disabled.  (The
\* description text is kept by the page but sent nowhere; it is left out.)
handleChange ==
  /\ OnAddPage /\ ~success /\ ~pageLoading
  /\ \E field \in {"amount", "typeId", "date"} :
       \E value \in (IF field = "amount" THEN Amounts
                     ELSE IF field = "date" THEN Dates
                     ELSE IF loadingTypes THEN {}
                     ELSE {""} \cup Range(typeOptions)) :
         /\ formData' = [formData EXCEPT ![field] = value]
         /\ PageStep(NoCall, <<>>)
  /\ pageError' = ""
  /\ NoPush
  /\ UNCHANGED <<Person, Transaction, personOp, stalePersonOps,
                 typesPending, txOp, staleTx, timers, typeOptions, personId,
                 pageLoading, loadingTypes, success, pathname>>

\* Variant of CanSubmit in which the submit button is never disabled.
CanSubmit_whileLoading ==
  /\ OnAddPage /\ ~success
  /\ formData.amount # "" /\ formData.date # ""
  /\ loadingTypes \/ formData.typeId # ""

\* The form can be submitted: it is on screen (no success card), its submit
\* button is not disabled, and no required control that is enabled is empty.
CanSubmit ==
  /\ OnAddPage /\ ~success /\ ~pageLoading
  /\ formData.amount # "" /\ formData.date # ""
  /\ loadingTypes \/ formData.typeId # ""

\* Variant of FieldsMissing that looks at the amount only.
FieldsMissing_amountOnly(fd) == fd.amount = ""

\* !formData.amount || !formData.typeId || !formData.date
FieldsMissing(fd) == fd.amount = "" \/ fd.typeId = "" \/ fd.date = ""

\* handleSubmit up to its await.
handleSubmit ==
  /\ CanSubmit
  /\ IF user = Null \/ personId = NoPersonId
     THEN /\ pageError' = NotLoggedInMessage(pathname)
          /\ PageStep(Call("handleSubmit", <<"rejected">>, pageError'), <<>>)
          /\ UNCHANGED <<pageLoading, txOp>>
     ELSE IF FieldsMissing(formData)
     THEN /\ pageError' = RequiredFieldsMessage
          /\ PageStep(Call("handleSubmit", <<"rejected">>, pageError'), <<>>)
          /\ UNCHANGED <<pageLoading, txOp>>
     ELSE /\ pageLoading' = TRUE
          /\ pageError' = ""
          /\ txOp' = [TransID |-> formData.typeId, PersonID |-> personId,
                      Amount |-> parseFloat(formData.amount),
                      TransactionDate |-> formData.date]
          /\ PageStep(Call("handleSubmit", <<"sent">>, ""),
                      <<DbCall("Transaction", "insert")>>)
  /\ NoPush
  /\ UNCHANGED <<Person, Transaction, personOp, stalePersonOps,
                 typesPending, staleTx, timers, formData, typeOptions,
                 personId, loadingTypes, success, pathname>>

\* The Transaction insert awaited by a handleSubmit run comes back and the
\* rest of handleSubmit runs: success card and timer on success (the table
\* then holds one row more, the row handleSubmit built), error text
\* otherwise, and setLoading(false) in either case.  The setters of an
\* unmounted page do nothing; its timer is set all the same.
TxInsertComplete ==
  \E run \in {"live", "stale"}, o \in {"ok", "error"},
     message \in InsertErrorMessages :
       /\ IF run = "live"
          THEN txOp # NoInsert /\ txOp' = NoInsert /\ UNCHANGED staleTx
          ELSE staleTx > 0 /\ staleTx' = staleTx - 1 /\ UNCHANGED txOp
       /\ IF o = "ok"
          THEN /\ Transaction < MaxTransactions
               /\ Transaction' = Transaction + 1
               /\ timers' = timers + 1
               /\ success' = (IF run = "live" THEN TRUE ELSE success)
               /\ UNCHANGED pageError
          ELSE /\ pageError' = IF run = "live"
                               THEN SubmitErrorText(pathname, message)
                               ELSE pageError
               /\ UNCHANGED <<Transaction, timers, success>>
       /\ pageLoading' = (IF run = "live" THEN FALSE ELSE pageLoading)
       /\ PageStep(Call("handleSubmit", <<"insert", run, o>>,
                        IF o = "ok" THEN "" ELSE message), <<>>)
       /\ NoPush
       /\ UNCHANGED <<Person, personOp, stalePersonOps, typesPending,
                      formData, typeOptions, personId, loadingTypes,
                      pathname>>

\* The delay of a timer set by handleSubmit has passed:
\* router.push('/dashboard').  A push to the route on screen navigates
\* nowhere.
TimerFire ==
  /\ timers > 0
  /\ timers' = timers - 1
  /\ pushes' = <<Push("timer", "/dashboard")>>
  /\ navTarget' = IF pathname = "/dashboard" THEN NoTarget ELSE "/dashboard"
  /\ PageStep(NoCall, <<>>)
  /\ UNCHANGED <<Person, Transaction, personOp, stalePersonOps,
                 typesPending, txOp, staleTx, formData, typeOptions,
                 personId, pageLoading, loadingTypes, success, pageError,
                 pathname>>

\* The dashboard is on screen, in the build's fallback mode, for the mock
\* identity restored from storage; no add page has been opened yet.
PageInit ==
  /\ mode = "test" /\ phase = "ready"
  /\ user = createMockUser(0) /\ session = createMockSession(0)
  /\ privileges = DefaultPrivileges /\ loading = FALSE
  /\ storage = JSONStringify([user |-> createMockUser(0),
                              session |-> createMockSession(0)])
  /\ libSession = Null /\ getSessionPending = FALSE
  /\ lookups = [i \in UserIds |-> 0]
  /\ pathname = "/dashboard" /\ navTarget = NoTarget
  /\ guardView = View(pathname, loading, user)
  /\ pushes = <<>>
  /\ loginPending = Null /\ loginError = "" /\ loginLoading = FALSE
  /\ signOutPending = [c \in Callers |-> 0]
  /\ lastCall = NoCall
  /\ NoAddPageYet
  /\ NoBillsPageYet

PageNext ==
  \/ OpenAddPage
  \/ LeaveAddPage
  \/ PersonSelectComplete
  \/ PersonInsertComplete
  \/ TypesComplete
  \/ handleChange
  \/ handleSubmit
  \/ TxInsertComplete
  \/ TimerFire

PageSpec == PageInit /\ [][PageNext]_vars

\* Timers run: a callback that is waiting is called in the end.
PageFairSpec == PageSpec /\ WF_vars(TimerFire)

-----------------------------------------------------------------------------
(* The navigation of the dashboard layout: the Sidebar's entries and the    *)
(* DashboardPage's shortcut links, both rendered from the current path and  *)
(* the privilege set.                                                       *)

\* Variant of isActive that also marks the Dashboard entry on every path
\* below it.
isActive_sameSection(p, href) == p = href \/ href = "/dashboard"

\* Sidebar: const isActive = pathname === item.href
isActive(p, href) == p = href

\* The entries the Sidebar renders on path p, each with its active mark.
SidebarEntries(p, privs) ==
  [i \in VisibleItems(privs) |->
     [href |-> navItems[i].href, isActive |-> isActive(p, navItems[i].href)]]

\* The links the DashboardPage renders under a privilege key, in the order
\* of the page.
shortcuts ==
  << [href |-> "/dashboard/expenses/add", privilegeKey |-> "can_add_expense"],
     [href |-> "/dashboard/income/add", privilegeKey |-> "can_add_income"],
     [href |-> "/dashboard/reports", privilegeKey |-> "can_view_reports"],
     [href |-> "/dashboard/reports", privilegeKey |-> "can_view_reports"],
     [href |-> "/dashboard/bills", privilegeKey |-> "can_upload_bills"],
     [href |-> "/dashboard/downloads",
      privilegeKey |-> "can_download_reports"] >>

\* DashboardPage: privileges?.key && (...)
showsShortcut(privilegeKey, privs) ==
  privs # Null /\ privilegeKey \in DOMAIN privs /\ privs[privilegeKey] = TRUE

VisibleShortcuts(privs) ==
  {i \in 1..Len(shortcuts) : showsShortcut(shortcuts[i].privilegeKey, privs)}

\* A link of the layout is followed to another route: the page of the old
\* route unmounts and the page of the new one mounts.  An add page sends its
\* two queries as it mounts; the calls of the page left are not cancelled.
SwitchPage(to) ==
  /\ navTarget' = NoTarget /\ pushes' = <<>>
  /\ stalePersonOps' =
       IF personOp = "none" THEN stalePersonOps
       ELSE [stalePersonOps EXCEPT ![personOp] = @ + 1]
  /\ staleTx' = IF txOp = NoInsert THEN staleTx ELSE staleTx + 1
  /\ StaleOps' <= MaxStaleOps
  /\ txOp' = NoInsert
  /\ MountPage
  /\ typesPending' = (to \in AddRoutes)
  /\ personOp' = IF to \in AddRoutes THEN fetchOrCreatePersonStart(user)
                 ELSE "none"
  /\ PageStep(NoCall,
              IF to \in AddRoutes
              THEN <<DbCall("Type", "select")>>
                     \o (IF user = Null THEN <<>>
                         ELSE <<DbCall("Person", "select")>>)
              ELSE <<>>)
  /\ UNCHANGED <<Person, Transaction, timers>>

\* An entry of the Sidebar is clicked.
FollowLink ==
  /\ guardView = "children"
  /\ \E i \in DOMAIN SidebarEntries(pathname, privileges) :
       /\ SidebarEntries(pathname, privileges)[i].href # pathname
       /\ pathname' = SidebarEntries(pathname, privileges)[i].href
  /\ SwitchPage(pathname')

\* A shortcut link of the DashboardPage is clicked.
FollowShortcut ==
  /\ guardView = "children" /\ pathname = "/dashboard"
  /\ \E i \in VisibleShortcuts(privileges) : pathname' = shortcuts[i].href
  /\ SwitchPage(pathname')

\* A signed-in user of the delegated mode is on the dashboard.
NavInit ==
  /\ mode = "remote" /\ phase = "ready"
  /\ \E e \in Emails :
       /\ user = RemoteUser(e) /\ session = RemoteSession(e)
       /\ libSession = RemoteSession(e)
  /\ privileges = DefaultPrivileges /\ loading = FALSE
  /\ storage = Null /\ getSessionPending = FALSE
  /\ lookups = [i \in UserIds |-> 0]
  /\ pathname = "/dashboard" /\ navTarget = NoTarget
  /\ guardView = View(pathname, loading, user)
  /\ pushes = <<>>
  /\ loginPending = Null /\ loginError = "" /\ loginLoading = FALSE
  /\ signOutPending = [c \in Callers |-> 0]
  /\ lastCall = NoCall
  /\ NoAddPageYet
  /\ NoBillsPageYet

NavNext ==
  \/ FollowLink
  \/ FollowShortcut
  \/ refreshPrivileges
  \/ LookupComplete
  \/ PersonSelectComplete
  \/ PersonInsertComplete
  \/ TypesComplete

NavSpec == NavInit /\ [][NavNext]_vars

-----------------------------------------------------------------------------
(* The bills page.  A file is named by the number of its drop; the list is  *)
(* a JavaScript array, indexed here from 1 where the code counts from 0.    *)

\* The file of an entry that has no file property.
NoFile == 0

\* An entry as onDrop makes it.  (The preview URL is left out: nothing reads
\* it but the image tag.)
NewEntry(f) ==
  [slot |-> "entry", file |-> f, uploading |-> FALSE, uploaded |-> FALSE,
   error |-> ""]

\* { ...undefined }: an object without properties.
EmptyObject == NewEntry(NoFile)

\* An index of the array below its length that was never assigned.
Hole == [EmptyObject EXCEPT !.slot = "empty"]

\* { ...newFiles[i] }
Spread(list, i) ==
  IF i <= Len(list) /\ list[i].slot = "entry" THEN list[i] ELSE EmptyObject

\* newFiles[i] = e on a copy of the list: an index past the end lengthens
\* the array and leaves the indices between unassigned.
SetAt(list, i, e) ==
  [k \in 1..(IF i > Len(list) THEN i ELSE Len(list)) |->
     IF k = i THEN e ELSE IF k <= Len(list) THEN list[k] ELSE Hole]

\* newFiles.splice(index, 1)
RemoveAt(list, i) == SubSeq(list, 1, i - 1) \o SubSeq(list, i + 1, Len(list))

\* The three updaters uploadFiles passes to setFiles.
MarkUploading(list, i) ==
  SetAt(list, i, [Spread(list, i) EXCEPT !.uploading = TRUE])

MarkUploaded(list, i) ==
  SetAt(list, i, [Spread(list, i) EXCEPT !.uploading = FALSE,
                                          !.uploaded = TRUE])

MarkError(list, i, text) ==
  SetAt(list, i, [Spread(list, i) EXCEPT !.uploading = FALSE,
                                          !.error = text])

\* error.message || 'Upload failed'
UploadErrorMessages == {"", "Bucket not found"}
UploadErrorText(message) == IF message # "" THEN message ELSE "Upload failed"

\* The loop of uploadFiles over the list it was called with: the first index
\* from `from` on whose entry was not uploaded, or 0 when the loop ends.
NextIndex(snapshot, from) ==
  LET S == {j \in from..Len(snapshot) : ~snapshot[j].uploaded}
  IN  IF S = {} THEN 0 ELSE CHOOSE j \in S : \A k \in S : j <= k

\* files.every(f => f.uploaded); every skips unassigned indices.
AllUploaded(list) ==
  \A i \in 1..Len(list) : list[i].slot = "entry" => list[i].uploaded

\* The list shows an entry without a file: reading fileItem.file.name throws
\* while the page renders, and the page is gone.
Crashed ==
  \E i \in 1..Len(files) : files[i].slot = "entry" /\ files[i].file = NoFile

BillsOnScreen ==
  pathname = "/dashboard/bills" /\ guardView = "children" /\ ~Crashed

\* A status update: the index it writes, the file whose upload it reports
\* and the status.
Update(i, f, status) == [index |-> i, file |-> f, status |-> status]

\* What a step of the bills page leaves alone.
BillStep ==
  /\ pushes' = <<>>
  /\ UNCHANGED <<authVars, pathname, navTarget, guardView, addVars>>

\* onDrop: n accepted files are appended.
onDrop ==
  /\ BillsOnScreen
  /\ \E n \in 1..(MaxFiles - dropped) :
       /\ files' = files \o [k \in 1..n |-> NewEntry(dropped + k)]
       /\ dropped' = dropped + n
  /\ updates' = <<>>
  /\ lastCall' = Call("onDrop", <<>>, "")
  /\ UNCHANGED <<uploading, uploadRun>>
  /\ BillStep

\* removeFile(index), from the X button of an entry that is neither
\* uploading nor uploaded.
removeFile ==
  /\ BillsOnScreen
  /\ \E index \in 1..Len(files) :
       /\ ~files[index].uploading /\ ~files[index].uploaded
       /\ files' = RemoveAt(files, index)
       /\ lastCall' = Call("removeFile", <<index>>, "")
  /\ updates' = <<>>
  /\ UNCHANGED <<uploading, uploadRun, dropped>>
  /\ BillStep

\* clearFiles, from the Clear All button.
clearFiles ==
  /\ BillsOnScreen /\ Len(files) > 0 /\ ~uploading
  /\ files' = <<>>
  /\ updates' = <<>>
  /\ lastCall' = Call("clearFiles", <<>>, "")
  /\ UNCHANGED <<uploading, uploadRun, dropped>>
  /\ BillStep

\* uploadFiles up to its first await, from the Upload All button: the loop
\* runs over the list of the render the button belongs to.
uploadFiles ==
  /\ BillsOnScreen /\ Len(files) > 0
  /\ ~uploading /\ ~AllUploaded(files)
  /\ IF user = Null
     THEN /\ UNCHANGED <<files, uploading, uploadRun>>
          /\ updates' = <<>>
     ELSE LET i == NextIndex(files, 1)
          IN  /\ uploading' = TRUE
              /\ files' = MarkUploading(files, i)
              /\ updates' = <<Update(i, files[i].file, "uploading")>>
              /\ uploadRun' = [files |-> files, i |-> i]
  /\ lastCall' = Call("uploadFiles", <<"sent">>, "")
  /\ UNCHANGED dropped
  /\ BillStep

\* The upload awaited by uploadFiles returns and the loop goes on to its
\* next await or to its end.  The setters of a page that is gone do nothing.
UploadComplete ==
  /\ uploadRun # Null
  /\ \E o \in {"ok", "error"}, message \in UploadErrorMessages :
       LET i     == uploadRun.i
           j     == NextIndex(uploadRun.files, i + 1)
           list1 == IF o = "ok" THEN MarkUploaded(files, i)
                    ELSE MarkError(files, i, UploadErrorText(message))
           up1   == Update(i, uploadRun.files[i].file,
                           IF o = "ok" THEN "uploaded" ELSE "error")
       IN  /\ o = "ok" => message = ""
           /\ uploadRun' = IF j = 0 THEN Null ELSE [uploadRun EXCEPT !.i = j]
           /\ IF Crashed
              THEN /\ UNCHANGED <<files, uploading>>
                   /\ updates' = <<>>
              ELSE /\ files' = IF j = 0 THEN list1
                               ELSE MarkUploading(list1, j)
                   /\ uploading' = IF j = 0 THEN FALSE ELSE uploading
                   /\ updates' =
                        IF j = 0 THEN <<up1>>
                        ELSE <<up1, Update(j, uploadRun.files[j].file,
                                           "uploading")>>
           /\ lastCall' = Call("uploadFiles", <<o>>, message)
  /\ UNCHANGED dropped
  /\ BillStep

\* The bills page is on screen for the mock identity of the fallback mode.
BillInit ==
  /\ mode = "test" /\ phase = "ready"
  /\ user = createMockUser(0) /\ session = createMockSession(0)
  /\ privileges = DefaultPrivileges /\ loading = FALSE
  /\ storage = JSONStringify([user |-> createMockUser(0),
                              session |-> createMockSession(0)])
  /\ libSession = Null /\ getSessionPending = FALSE
  /\ lookups = [i \in UserIds |-> 0]
  /\ pathname = "/dashboard/bills" /\ navTarget = NoTarget
  /\ guardView = View(pathname, loading, user)
  /\ pushes = <<>>
  /\ loginPending = Null /\ loginError = "" /\ loginLoading = FALSE
  /\ signOutPending = [c \in Callers |-> 0]
  /\ lastCall = NoCall
  /\ NoAddPageYet
  /\ NoBillsPageYet

BillNext ==
  \/ onDrop
  \/ removeFile
  \/ clearFiles
  \/ uploadFiles
  \/ UploadComplete

BillSpec == BillInit /\ [][BillNext]_vars

----------------------------------------------------------------------------
(* Properties *)

IsGuardPush(x) == x.by = "guard" /\ x.to = "/login"
IsSidebarPush(x) == x.by = "sidebar" /\ x.to = "/login"
IsLoginPush(x) == x.to = "/login"

GuardPushes(ps) == Len(SelectSeq(ps, IsGuardPush))
SidebarPushes(ps) == Len(SelectSeq(ps, IsSidebarPush))
LoginPushes(ps) == Len(SelectSeq(ps, IsLoginPush))

\* The guard's states of section 4.3.
Authorized == IsDashboardRoute(pathname) /\ ~loading /\ user # Null
Unauthorized == IsDashboardRoute(pathname) /\ ~loading /\ user = Null

DesignatedPair == <<TEST_USER.email, TEST_USER.password>>

\* C1: in no reachable state is loading false, the identity present and the
\* privilege set null.
C1_LoadedIdentityHasPrivileges ==
  ~(loading = FALSE /\ user # Null /\ privileges = Null)

\* C2: the guard renders its children only when loading is false and the
\* identity is present; in every other state it renders the placeholder or
\* nothing.
C2_ChildrenOnlyWhenAuthorized ==
  /\ guardView = "children" => Authorized
  /\ (IsDashboardRoute(pathname) /\ ~Authorized)
       => guardView \in {"placeholder", "null"}
  /\ ~IsDashboardRoute(pathname) => guardView = "unmounted"

C2_Witness == guardView = "children" /\ user # Null

\* C3: in fallback mode a signIn with any pair other than the designated one
\* fails with the fixed message and leaves identity, session, privilege set
\* and the persisted record as they were.
C3_BadCredentialsRejected ==
  [][(mode = "test" /\ lastCall'.op = "signIn"
        /\ lastCall'.args # DesignatedPair)
       => (/\ lastCall'.error = InvalidCredentialsMessage
           /\ UNCHANGED <<user, session, privileges, storage>>)]_vars

\* A rejected signIn while an identity is present and persisted.
C3_Witness ==
  /\ mode = "test" /\ lastCall.op = "signIn"
  /\ lastCall.args # DesignatedPair
  /\ lastCall.error = InvalidCredentialsMessage
  /\ user # Null /\ storage # Null

\* C4: in fallback mode every signIn with the designated pair yields the
\* identity test-user-id-12345 / test@example.com, an all-true privilege set
\* and a persisted record holding that identity.
C4_DesignatedSignIn ==
  (mode = "test" /\ lastCall.op = "signIn" /\ lastCall.args = DesignatedPair)
    => (/\ lastCall.error = ""
        /\ user # Null
        /\ user.id = "test-user-id-12345"
        /\ user.email = "test@example.com"
        /\ privileges = [k \in PrivKeys |-> TRUE]
        /\ JSONParses(storage)
        /\ JSONParse(storage).user.id = "test-user-id-12345"
        /\ JSONParse(storage).user = user)

\* A designated signIn made later than the one that wrote the initial record.
C4_Witness ==
  /\ mode = "test" /\ lastCall.op = "signIn" /\ lastCall.args = DesignatedPair
  /\ user # Null /\ user.created_at > 0

\* C5 as stated: in either mode signOut never fails and leaves identity,
\* session, privilege set and persisted record absent.
C5_SignOutNeverFails ==
  lastCall.op = "signOut"
    => (/\ lastCall.error = ""
        /\ user = Null /\ session = Null /\ privileges = Null
        /\ storage = Null)

\* C5 as amended: in fallback mode signOut never fails and leaves identity,
\* session, privilege set and persisted record absent, also when called
\* while already signed out.
C5_FallbackSignOutNeverFails ==
  (mode = "test" /\ lastCall.op = "signOut")
    => (/\ lastCall.error = ""
        /\ user = Null /\ session = Null /\ privileges = Null
        /\ storage = Null)

\* signOut called under the guard while already signed out: no dependency of
\* the guard's effect changed, so nothing was pushed.
C5_Witness ==
  /\ mode = "test" /\ lastCall.op = "signOut"
  /\ IsDashboardRoute(pathname) /\ pushes = <<>>

\* The step in which a signOut started from the Sidebar completes without
\* error, taken from a state in which the guard shows the dashboard.
SidebarSignOutDone ==
  /\ guardView = "children"
  /\ lastCall'.op = "signOut" /\ lastCall'.args = <<"sidebar">>
  /\ lastCall'.error = ""

\* C6 as stated: a signOut from an authorized dashboard state issues exactly
\* one redirect to /login in total, and the prior identity is gone.
C6_OneRedirectInTotal ==
  [][SidebarSignOutDone
       => (LoginPushes(pushes') = 1 /\ user' = Null /\ session' = Null)]_vars

\* C6 as amended: a signOut from an authorized dashboard state issues two
\* redirects to /login, exactly one by the guard's effect and one by the
\* sign-out handler, and the prior identity is gone.
C6_OneRedirectEach ==
  [][SidebarSignOutDone
       => (/\ GuardPushes(pushes') = 1
           /\ SidebarPushes(pushes') = 1
           /\ Len(pushes') = 2
           /\ user' = Null /\ session' = Null
           /\ guardView' = "null")]_vars

C6_Witness ==
  /\ lastCall.op = "signOut" /\ lastCall.args = <<"sidebar">>
  /\ lastCall.error = ""
  /\ GuardPushes(pushes) = 1 /\ SidebarPushes(pushes) = 1
  /\ guardView = "null"

\* C7: fetchPrivileges never rejects, and every failed lookup (error object
\* returned, or the call throwing) leaves the all-true default record.
C7_LookupFailureGivesDefault ==
  lastCall.op = "fetchPrivileges"
    => (/\ lastCall.error = ""
        /\ lastCall.args[1] \in LookupFailures
             => privileges = DefaultPrivileges)

\* C8: an entry without a key is visible; a keyed entry is visible when the
\* privilege set is null; with a privilege set present a keyed entry is
\* visible iff the value of its key is true.
C8_EntryVisibility ==
  \A i \in 1..Len(navItems) :
    LET k == navItems[i].privilegeKey
        visible == i \in VisibleItems(privileges)
    IN /\ k = NoPrivilegeKey => visible
       /\ (k # NoPrivilegeKey /\ privileges = Null) => visible
       /\ (k # NoPrivilegeKey /\ privileges # Null)
            => (visible <=> (k \in DOMAIN privileges /\ privileges[k] = TRUE))

\* The Sidebar is on screen with a privilege set that hides some entry.
C8_Witness ==
  /\ guardView = "children" /\ privileges # Null
  /\ VisibleItems(privileges) # 1..Len(navItems)

\* C9: every entry whose key is missing from a resolved privilege record is
\* shown.
C9_MissingKeyShown ==
  privileges # Null
    => \A i \in 1..Len(navItems) :
         (/\ navItems[i].privilegeKey # NoPrivilegeKey
          /\ navItems[i].privilegeKey \notin DOMAIN privileges)
           => i \in VisibleItems(privileges)

\* C10: the guard redirects exactly once in a step that takes it into the
\* unauthorized state and in no other step: not while loading is true, and
\* not again while it stays unauthorized.
C10_RedirectOncePerTransition ==
  [][GuardPushes(pushes')
       = (IF Unauthorized' /\ ~Unauthorized THEN 1 ELSE 0)]_vars

C10_Witness == Unauthorized /\ GuardPushes(pushes) = 1

\* C11: once the guard is authorized or unauthorized, a step that changes
\* the identity does not leave it authorized or unauthorized: the guard is
\* back in the checking state (loading true) first.
C11_IdentityChangeReentersChecking ==
  [][((Authorized \/ Unauthorized) /\ user' # user)
       => ~(Authorized' \/ Unauthorized')]_vars

\* C12: refreshPrivileges leaves identity, session, privilege set, loading
\* and storage as they were; with the identity absent it starts no lookup,
\* with an identity present it starts exactly one lookup, for that id.
C12_RefreshPrivileges ==
  [][lastCall'.op = "refreshPrivileges"
       => (/\ UNCHANGED <<user, session, privileges, loading, storage>>
           /\ lastCall'.error = ""
           /\ IF user = Null THEN UNCHANGED lookups
              ELSE lookups' = [lookups EXCEPT ![user.id] = @ + 1])]_vars

\* refreshPrivileges was called with an identity present and one lookup for
\* its id is in flight.
C12_Witness ==
  /\ lastCall.op = "refreshPrivileges"
  /\ user # Null /\ lookups[user.id] = 1 /\ InFlight = 1

\* C13: in fallback mode every signUp, whatever its e-mail and password and
\* whatever the state before, succeeds and leaves the mock identity and
\* session, an all-true privilege set and a persisted record of the two.
C13_FallbackSignUpAlwaysSucceeds ==
  (mode = "test" /\ lastCall.op = "signUp")
    => (/\ lastCall.error = ""
        /\ user # Null
        /\ user.id = MockUserId /\ user.email = TEST_USER.email
        /\ session # Null
        /\ session.access_token = "mock-access-token"
        /\ session.refresh_token = "mock-refresh-token"
        /\ session.user = user
        /\ privileges = [k \in PrivKeys |-> TRUE]
        /\ JSONParses(storage)
        /\ JSONParse(storage) = [user |-> user, session |-> session])

\* A signUp with an e-mail and a password that signIn would reject.
C13_Witness ==
  /\ mode = "test" /\ lastCall.op = "signUp"
  /\ lastCall.args = <<"x@y.com", "wrong">>
  /\ user # Null /\ storage # Null

----------------------------------------------------------------------------
(* Properties of the add-expense / add-income pages *)

\* The step runs handleSubmit up to its await.
SubmitCalled ==
  lastCall'.op = "handleSubmit" /\ lastCall'.args[1] \in {"rejected", "sent"}

\* The step is the return of the Person lookup / of the Person insert of a
\* fetchOrCreatePerson run.
PersonSelectDone ==
  lastCall'.op = "fetchOrCreatePerson" /\ lastCall'.args[1] = "select"
PersonInsertDone ==
  lastCall'.op = "fetchOrCreatePerson" /\ lastCall'.args[1] = "insert"

\* The step is the return of the Transaction insert to the mounted page.
TxInsertDone ==
  lastCall'.op = "handleSubmit" /\ lastCall'.args[1] = "insert"
    /\ lastCall'.args[2] = "live"

PersonInsertCall == DbCall("Person", "insert")
TransactionInsertCall == DbCall("Transaction", "insert")

\* One of the three required fields of the form is empty.
SomeFieldEmpty ==
  formData.amount = "" \/ formData.typeId = "" \/ formData.date = ""

C15_AtMostOnePersonPerEmail ==
  Cardinality(PersonRowsNamed(user.email)) <= 1

\* C16: a Person lookup that finds no row sends an insert, whatever other
\* find-or-create runs are in flight, and an insert that succeeds adds a
\* row, whatever rows the table holds; so two runs whose lookups both
\* return before either insert leave two rows for the e-mail.
C16_ConcurrentRunsBothInsert ==
  [][/\ (PersonSelectDone /\ lastCall'.args[4] = "no rows")
          => sent' = <<PersonInsertCall>>
     /\ (PersonInsertDone /\ lastCall'.args[3] = "data")
          => Len(Person') = Len(Person) + 1]_vars

\* Two rows for the identity's e-mail, the second just created.
C16_Witness ==
  /\ lastCall.op = "fetchOrCreatePerson" /\ lastCall.args[1] = "insert"
  /\ Cardinality(PersonRowsNamed(user.email)) = 2

\* C17: a Person insert is sent only by a lookup that found no row for the
\* e-mail; a lookup that failed in transport or matched several rows sends
\* none.
C17_InsertOnlyWhenAbsent ==
  [][(PersonSelectDone /\ lastCall'.args[4] # "no rows") => sent' = <<>>]_vars

TimerPush == Push("timer", "/dashboard")

\* C18: a submit that passes validation sends exactly one Transaction
\* insert, and a Transaction insert is sent by nothing else and neither
\* while the page awaits one nor once it shows the success card; the insert
\* that succeeds sets one timer, no timer is dropped, and a timer that runs
\* pushes /dashboard, which every waiting timer does in the end.
C18_OneInsertThenDashboard ==
  /\ [][/\ (SubmitCalled /\ lastCall'.args[1] = "sent")
             => (/\ sent' = <<TransactionInsertCall>>
                 /\ txOp' = [TransID |-> formData.typeId,
                             PersonID |-> personId,
                             Amount |-> parseFloat(formData.amount),
                             TransactionDate |-> formData.date])
        /\ (\E i \in 1..Len(sent') : sent'[i] = TransactionInsertCall)
             => (/\ SubmitCalled /\ ~SomeFieldEmpty
                 /\ txOp = NoInsert /\ ~pageLoading /\ ~success)
        /\ (TxInsertDone /\ lastCall'.args[3] = "ok")
             => (success' /\ timers' = timers + 1 /\ pushes' = <<>>)
        /\ timers' < timers
             => (timers' = timers - 1 /\ pushes' = <<TimerPush>>)]_vars
  /\ (timers > 0) ~> (pushes = <<TimerPush>>)

\* The success card is on screen and the timer of its insert has run.
C18_Witness ==
  /\ OnAddPage /\ success /\ Transaction = 1 /\ timers = 0
  /\ pushes = <<TimerPush>> /\ navTarget = "/dashboard"

\* C19: when the Transaction insert fails, the page sets a non-empty error
\* text and clears its submitting flag; it pushes no route, sets no timer,
\* sends no call (no retry, no delete) and leaves the Person table alone.
C19_FailedInsertShowsError ==
  [][(TxInsertDone /\ lastCall'.args[3] = "error")
       => (/\ pageError' # ""
           /\ pageError' \in {lastCall'.error, AddFailedMessage(pathname)}
           /\ ~pageLoading' /\ ~success'
           /\ pushes' = <<>> /\ UNCHANGED <<navTarget, timers>>
           /\ sent' = <<>> /\ txOp' = NoInsert
           /\ UNCHANGED <<Person, Transaction, personOp, stalePersonOps,
                          staleTx>>)]_vars

\* The insert failed with an error that carries no message, after the page
\* had created the Person row.
C19_Witness ==
  /\ lastCall = Call("handleSubmit", <<"insert", "live", "error">>, "")
  /\ pageError = AddFailedMessage(pathname)
  /\ ~pageLoading /\ Len(Person) > 0 /\ Transaction = 0

\* The step is a failure of the mounted page's fetchOrCreatePerson: its
\* lookup was rejected, or its insert failed.
PersonStepFailed ==
  /\ lastCall'.op = "fetchOrCreatePerson" /\ lastCall'.args[2] = "live"
  /\ \/ lastCall'.args[1] = "select" /\ lastCall'.args[3] = "throw"
     \/ lastCall'.args[1] = "insert" /\ lastCall'.args[3] = "error"

\* C20: a failure of the Person find-or-create, of the Type load or of the
\* Transaction insert leaves a non-empty page error.
C20_EveryFailureSetsError ==
  [][/\ PersonStepFailed => pageError' # ""
     /\ (lastCall'.op = "fetchTypes"
           /\ lastCall'.args[1] \in {"error", "throw"})
          => pageError' = TypesFailedMessage(pathname)
     /\ (TxInsertDone /\ lastCall'.args[3] = "error")
          => pageError' # ""]_vars

----------------------------------------------------------------------------
(* Properties of the third group of claims *)

IsDashboardPush(x) == x.to = "/dashboard"
DashboardPushes(ps) == Len(SelectSeq(ps, IsDashboardPush))

\* The step ends a signIn or signUp that the mounted login page awaits.
LoginCallDone ==
  /\ lastCall'.op \in {"signIn", "signUp"}
  /\ pathname = "/login"
  /\ loginPending # Null => loginPending.page

\* C21: when the signIn or signUp awaited by the login page fails, the page
\* error is the message of the thrown error, the submitting flag is false
\* and nothing pushes /dashboard; /dashboard is pushed from the login page
\* only by a step in which the call succeeded.
C21_LoginErrorShownVerbatim ==
  [][/\ (LoginCallDone /\ lastCall'.error # "")
          => (/\ loginError' = lastCall'.error
              /\ ~loginLoading'
              /\ DashboardPushes(pushes') = 0)
     /\ (pathname = "/login" /\ DashboardPushes(pushes') > 0)
          => (/\ lastCall'.op \in {"signIn", "signUp"}
              /\ lastCall'.error = ""
              /\ DashboardPushes(pushes') = 1)]_vars

\* A remote sign-up was rejected while the login page was on screen.
C21_Witness ==
  /\ mode = "remote" /\ pathname = "/login"
  /\ lastCall.op = "signUp" /\ lastCall.error = RemoteErrorMessage
  /\ loginError = RemoteErrorMessage /\ ~loginLoading

\* C22: in fallback mode a successful signIn or signUp leaves a record of
\* the identity and session in storage and signOut leaves none; a reload
\* keeps the storage; and the provider's mount restores from a record the
\* identity and session it holds with an all-true privilege set, and from
\* empty storage the anonymous state.
C22_FallbackRecordRoundTrips ==
  [][mode = "test"
       => (/\ (lastCall'.op \in {"signIn", "signUp"} /\ lastCall'.error = "")
                => (/\ JSONParses(storage')
                    /\ JSONParse(storage') = [user |-> user',
                                              session |-> session']
                    /\ user'.id = MockUserId)
           /\ lastCall'.op = "signOut" => storage' = Null
           /\ phase' = "mounting" => storage' = storage
           /\ (lastCall'.op = "bootstrap" /\ storage = Null)
                => (user' = Null /\ session' = Null /\ privileges' = Null)
           /\ (lastCall'.op = "bootstrap" /\ JSONParses(storage))
                => (/\ user' = JSONParse(storage).user
                    /\ session' = JSONParse(storage).session
                    /\ user'.id = MockUserId
                    /\ privileges' = [k \in PrivKeys |-> TRUE]
                    /\ storage' = storage))]_vars

\* The provider has mounted and restored an identity that was written by a
\* signIn or signUp made after the first visit.
C22_Witness ==
  /\ mode = "test" /\ lastCall.op = "bootstrap"
  /\ user # Null /\ user.created_at > 0
  /\ privileges = [k \in PrivKeys |-> TRUE]

\* The entries of the rendered Sidebar that carry the active mark.
ActiveEntries ==
  {i \in DOMAIN SidebarEntries(pathname, privileges) :
     SidebarEntries(pathname, privileges)[i].isActive}

\* C23: whenever the Sidebar is rendered, at most one of its entries is
\* marked active, and an entry is marked active exactly when its href is
\* the current path.
C23_AtMostOneActiveEntry ==
  guardView = "children"
    => /\ Cardinality(ActiveEntries) <= 1
       /\ \A i \in DOMAIN SidebarEntries(pathname, privileges) :
            SidebarEntries(pathname, privileges)[i].isActive
              <=> navItems[i].href = pathname

\* The Sidebar is rendered on the reports page with the Dashboard entry and
\* the reports entry both shown, and only the reports entry is active.
C23_Witness ==
  /\ guardView = "children" /\ pathname = "/dashboard/reports"
  /\ {1, 4} \subseteq DOMAIN SidebarEntries(pathname, privileges)
  /\ ActiveEntries = {4}

\* The Sidebar shows an entry for privilege key k.
SidebarShows(k) ==
  \E i \in VisibleItems(privileges) : navItems[i].privilegeKey = k

\* The DashboardPage shows a shortcut link for privilege key k.
DashboardShows(k) ==
  \E i \in VisibleShortcuts(privileges) : shortcuts[i].privilegeKey = k

\* C29: while the DashboardPage is on screen, for each privilege key the
\* Sidebar shows the entry for the key exactly when the page shows the
\* shortcut link for it.
C29_SidebarMatchesShortcuts ==
  (guardView = "children" /\ pathname = "/dashboard")
    => \A k \in PrivKeys : SidebarShows(k) <=> DashboardShows(k)

\* The Category direction of the Type rows with this id.
TypeDirections(id) ==
  {TypeTable[i].Category.Type :
     i \in {j \in 1..Len(TypeTable) : TypeTable[j].TypeID = id}}

\* C24: every Transaction insert an add page sends carries the id of a Type
\* whose Category direction is the page's (INCOME on the add-income page,
\* EXPENSE on the add-expense page), and the row has the four fields
\* TransID, PersonID, Amount and TransactionDate and no direction field.
C24_InsertedTypeHasPageDirection ==
  [][sent' = <<TransactionInsertCall>>
       => (/\ TypeDirections(txOp'.TransID) = {Direction(pathname)}
           /\ DOMAIN txOp' = {"TransID", "PersonID", "Amount",
                              "TransactionDate"})]_vars

\* The add-income page has sent the insert of a row for the Salary type.
C24_Witness ==
  /\ pathname = "/dashboard/income/add"
  /\ sent = <<TransactionInsertCall>>
  /\ txOp # NoInsert /\ txOp.TransID = "type-salary"

\* C25: whenever loading is false and the identity is absent, the privilege
\* set is null, whatever lookups were in flight when the state was cleared.
C25_NoPrivilegesWithoutIdentity ==
  (~loading /\ user = Null) => privileges = Null

\* C26: after the provider mounts, loading becomes false.  As a property of
\* finite runs: while loading is true, a step of the provider that sets it
\* false is still ahead, which is the mount effect or the continuation of
\* the session lookup the effect sent.
C26_LoadingEndsAfterMount ==
  loading => (phase = "mounting" \/ getSessionPending)

\* C27: in fallback mode, once loading is false, local storage holds the
\* test_auth record exactly when an identity is present.
C27_RecordIffIdentity ==
  (mode = "test" /\ ~loading) => (storage # Null <=> user # Null)

\* After a sign-out that followed a sign-in of this visit, the provider is
\* anonymous and the record is gone.
C27_Witness ==
  /\ mode = "test" /\ ~loading /\ phase = "ready"
  /\ lastCall.op = "signOut"
  /\ storage = Null /\ user = Null

\* C28: the identity is present exactly when the session is, the session
\* of a present identity belongs to it, and a step that changes the identity
\* or the session to a present value sets both from the same session.
C28_IdentityIffSession ==
  /\ [](/\ user = Null <=> session = Null
        /\ user # Null => session.user.id = user.id)
  /\ [][user' # user <=> session' # session]_vars

\* The auth listener of the delegated mode has installed a session and its
\* user.
C28_Witness ==
  /\ mode = "remote" /\ lastCall.op = "onAuthStateChange"
  /\ user # Null /\ session # Null /\ session.user.id = user.id

\* C30: every status update uploadFiles applies lands on the list entry
\* that holds the file whose upload it reports, and the list never holds an
\* entry without a file (nor an unassigned index).
C30_StatusLandsOnItsFile ==
  /\ [](\A i \in 1..Len(files) :
          files[i].slot = "entry" /\ files[i].file # NoFile)
  /\ [][\A k \in 1..Len(updates') :
          /\ updates'[k].index <= Len(files')
          /\ files'[updates'[k].index].file = updates'[k].file]_vars

====
